---- MODULE Spec2Model ----
(***************************************************************************)
(* Orchestration pipeline of the COI bot: the ingest handler               *)
(* (services/email_watcher), the approval gate (services/telegram_bot)     *)
(* and the generator service (services/coi_generator), coordinating        *)
(* through Firestore documents.  Every Firestore call and every HTTP       *)
(* request is one atomic step; handlers of concurrent requests interleave  *)
(* between those steps.                                                    *)
(***************************************************************************)
EXTENDS Integers, FiniteSets, Sequences, TLC

(* ---------------------------- bounds ----------------------------------- *)
NumThreads == 2
NumWorkers == 2
MaxNotifications == 3
NumCallers == 2
MaxNotifies == 2
MaxDriveItems == 3      \* files the Drive query lists (pageSize is 10)
MaxHeaderItems == 1     \* addresses in an original To or Cc header
MaxRecipients == 2      \* addresses in an inferred recipient list
MaxLogSteps == 3        \* log_step calls
MaxStoreLogSteps == 1   \* log_step calls made while approval records are stored
MaxAttach == 2          \* file names passed to create_draft_coi_reply
MaxListed == 2          \* threads in the answer of threads.list (maxResults is 3)
MaxMessages == 2        \* messages of a listed thread
MaxAnalyzeItems == 1    \* files the Drive query lists within one analyze request

Threads == 1..NumThreads
Workers == 1..NumWorkers
Callers == 1..NumCallers

(* ------------------------- durable store ------------------------------- *)
VARIABLES
  locks,             \* email_processing_locks/thread_<id>: creating worker, or NoLock
  last_thread_id,    \* email_state/last_processed.last_thread_id, or None
  pending_requests   \* pending_requests/msg_<id>: approval record, or NoDoc

(* -------------------- email_watcher invocations ------------------------ *)
VARIABLES
  ew_pc,             \* position of each invocation
  ew_thread,         \* thread['id'] resolved by get_latest_thread
  ew_holds,          \* acquire_processing_lock returned True, not yet released
  ew_result,         \* how handle_email ended in this invocation
  ew_effect,         \* what the generator did for this invocation's request
  ew_exit,           \* the exit path the invocation took
  ew_ack,            \* what the caller of email_watcher gets
  notifications,     \* notifications delivered so far
  handled,           \* threads for which handle_email has returned
  failed             \* threads whose latest handle_email ended in coi_analysis_failed

(* -------------------- telegram_bot invocations ------------------------- *)
VARIABLES
  cb_pc,             \* position of each handle_callback invocation
  cb_thread,         \* thread id parsed from callback_data, or None
  cb_action,         \* action parsed from callback_data
  cb_outcome,        \* what the invocation did
  cb_effect,         \* what the generator did for this invocation's request
  notifies,          \* notifications delivered to telegram_bot so far
  created,           \* per thread: notify_about_coi_request calls
  triggers,          \* per thread: generate_coi requests posted
  prompts            \* per thread: the last message notify_about_coi_request sent

storeVars == <<locks, last_thread_id, pending_requests>>
ewVars == <<ew_pc, ew_thread, ew_holds, ew_result, ew_effect, ew_exit, ew_ack,
           notifications, handled, failed>>
cbVars == <<cb_pc, cb_thread, cb_action, cb_outcome, cb_effect, notifies, created, triggers>>

(* ---------------- one request served by coi_generator ------------------ *)
VARIABLES
  gf_pc,             \* position of the generate_coi_files call
  gf_in,             \* what the call met: Drive listing, storage behaviour
  gf_out,            \* what the call did
  an_pc,             \* position of the analyze_for_coi_request call
  an_in,             \* the LLM answers the call got, and whether files were found
  an_out,            \* what the call did
  dr_pc,             \* position of the create_draft_coi_reply call
  dr_in,             \* original and inferred recipient lists of the request
  dr_out,            \* the To and Cc lists of the composed message
  flow_log,          \* per thread: the documents of coi_flow_logs/thread_<id>/events
  flow_top,          \* the event documents written directly under coi_flow_logs
  log_clock,         \* log_step calls made so far (stands for the timestamp)
  log_raised,        \* the last log_step call raised to its caller
  latest_call,       \* one call of get_latest_thread: pc, the listing, the return value
  notify_call        \* notify_about_coi_request between its two calls: pc, thread, flags

filesVars == <<gf_pc, gf_in, gf_out>>
analyzeVars == <<an_pc, an_in, an_out>>
draftVars == <<dr_pc, dr_in, dr_out>>
logVars == <<flow_log, flow_top, log_clock, log_raised>>
genVars == <<filesVars, analyzeVars, draftVars, logVars>>
vars == <<storeVars, ewVars, cbVars, prompts, genVars, latest_call, notify_call>>

None == 0
NoLock == 0
NoDoc == [status |-> "absent", insured_inferred |-> FALSE, holder_inferred |-> FALSE]

(* ------------------------ coi_generator -------------------------------- *)
\* What the classifier LLM and the Drive lookup can answer for one request.
LlmAnswers == {"true", "false", "malformed"}

\* What the generator did for one request: calls of generate_coi_files and of
\* create_draft_coi_reply, the raw response the classifier LLM gave, the
\* classification reached from it, and the raw responses written to the
\* coi_generator_errors collection.
NoEffect == [gen_runs |-> 0, drafts |-> 0, llm_response |-> "none",
             classified |-> "none", errors |-> <<>>]

\* is_coi_request with the try/except of lines 332-344 left out: a malformed
\* response is passed on as it came and nothing is recorded.
is_coi_request_unchecked(llm) ==
  [is_likely_coi_request |-> llm # "false", errors |-> <<>>]

\* Lines 332-346: a response that does not parse, or lacks
\* is_likely_coi_request, is written to coi_generator_errors with the raw
\* response and answered as {"is_likely_coi_request": False}.
is_coi_request(llm) ==
  [is_likely_coi_request |-> llm = "true",
   errors |-> IF llm = "malformed" THEN <<llm>> ELSE <<>>]

\* analyze_for_coi_request without the test of the four fields (lines 606-609).
analyze_for_coi_request_unconditional(llm, complete, files) ==
  LET analysis == is_coi_request(llm)
      run == analysis.is_likely_coi_request
      draft == run /\ files
  IN [gen_runs |-> IF run THEN 1 ELSE 0,
      drafts |-> IF draft THEN 1 ELSE 0,
      llm_response |-> llm,
      classified |-> IF analysis.is_likely_coi_request THEN "true" ELSE "false",
      errors |-> analysis.errors]

\* Lines 587-677: generate_coi_files is called when the classification is
\* positive and the four inferred fields are present; create_draft_coi_reply
\* follows when files were found.
analyze_for_coi_request(llm, complete, files) ==
  LET analysis == is_coi_request(llm)
      run == analysis.is_likely_coi_request /\ complete
      draft == run /\ files
  IN [gen_runs |-> IF run THEN 1 ELSE 0,
      drafts |-> IF draft THEN 1 ELSE 0,
      llm_response |-> llm,
      classified |-> IF analysis.is_likely_coi_request THEN "true" ELSE "false",
      errors |-> analysis.errors]

\* The body-less reply of the service: ("", 200).
EmptyReply == [status |-> 200, has_json |-> FALSE, is_likely_coi_request |-> FALSE,
               insured_inferred |-> FALSE, holder_inferred |-> FALSE]

\* Lines 680-690: the service acts on "analyze_for_coi_request" only; every
\* request, whatever its action, is answered with the empty reply.
coi_generator(action, llm, complete, files) ==
  [effect |-> IF action = "analyze_for_coi_request"
              THEN analyze_for_coi_request(llm, complete, files)
              ELSE NoEffect,
   reply |-> EmptyReply]

(* -------------------- coi_generator: generate_coi_files ---------------- *)
\* A file name as far as the code looks at it: the casing of the "additional"
\* marker it may contain, and its extension.
Markers == {"none", "additional", "ADDITIONAL"}
Extensions == {"pdf", "PDF"}
FileNames == [marker : Markers, ext : Extensions]

SeqsUpTo(S, n) == UNION {[1..k -> S] : k \in 0..n}

\* Lines 116-117: len(items) > 2 cuts the listing to items[:2].
DriveCap == 2

\* How a storage call made for one file goes: the file is there and the work
\* succeeds; blob.exists() is False; an exception inside the try of the
\* function; an exception from a call made outside that try (blob.exists(),
\* the signature download).
StorageModes == {"ok", "missing", "caught", "raised"}

\* str.lower() on the marker part of a name.
Lower(s) == IF s = "ADDITIONAL" THEN "additional" ELSE s

\* "additional" in f.lower(), lines 560 and 575.
HasMarker(f) == Lower(f.marker) = "additional"

\* name.endswith(".pdf"), line 122.
EndsWithPdf(f) == f.ext = "pdf"

\* Lines 92-148: the listing is cut to DriveCap items, then the names that do
\* not end in ".pdf" are skipped and the others uploaded and returned.
download_from_drive(items) ==
  LET capped == IF Len(items) > DriveCap THEN SubSeq(items, 1, DriveCap) ELSE items
  IN SelectSeq(capped, EndsWithPdf)

\* Lines 151-192: a missing blob and an exception inside the try both end in a
\* print and a normal return.
fill_coi(mode) == [raised |-> mode = "raised", filled |-> mode = "ok"]

\* Lines 229-288: same shape as fill_coi.
add_signature_and_flatten(mode) == [raised |-> mode = "raised", signed |-> mode = "ok"]

Event(step, status) == [step |-> step, status |-> status]

\* The indices of the names carrying the marker, in list order (line 575).
RECURSIVE AdditionalFrom(_, _)
AdditionalFrom(file_names, i) ==
  IF i > Len(file_names) THEN <<>>
  ELSE (IF HasMarker(file_names[i]) THEN <<i>> ELSE <<>>)
         \o AdditionalFrom(file_names, i + 1)

\* Lines 576-582: the events of the loop over the additional files.
RECURSIVE AdditionalLog(_, _)
AdditionalLog(idxs, sign_mode) ==
  IF idxs = <<>> THEN <<>>
  ELSE <<Event("additional_signature_flatten_started", "ok"),
         IF add_signature_and_flatten(sign_mode[Head(idxs)]).raised
         THEN Event("additional_signature_flatten_failed", "error")
         ELSE Event("additional_signature_flatten_finished", "ok")>>
       \o AdditionalLog(Tail(idxs), sign_mode)

NoCall == [items |-> <<>>, fill_mode |-> "ok", sign_mode |-> [i \in 1..DriveCap |-> "ok"]]

\* located: what download_from_drive returned; returned: the return value;
\* raised: an exception left the function; main_file, additional_files: the
\* indices in located the code took as main and as additional (0: none);
\* fills, signs: the calls of fill_coi and add_signature_and_flatten, by index;
\* log: the log_step calls in order.
NoRun == [located |-> <<>>, returned |-> <<>>, raised |-> FALSE, main_file |-> 0,
          additional_files |-> <<>>, fills |-> <<>>, signs |-> <<>>, log |-> <<>>]

\* Lines 540-584.  sign_mode[i] is how add_signature_and_flatten goes for the
\* i-th located file, fill_mode how fill_coi goes for the main file.
generate_coi_files(items, fill_mode, sign_mode) ==
  LET file_names == download_from_drive(items)
      mains == {i \in 1..Len(file_names) : ~HasMarker(file_names[i])}
      main_file == IF mains = {} THEN 0
                   ELSE CHOOSE i \in mains : \A k \in mains : i <= k
      located_log == <<Event("download_from_drive_started", "ok"),
                       Event("download_from_drive_finished", "ok")>>
      fill_log == <<Event("coi_fill_started", "ok"),
                    IF fill_coi(fill_mode).raised
                    THEN Event("coi_fill_failed", "error")
                    ELSE Event("coi_fill_finished", "ok"),
                    Event("signature_flatten_started", "ok")>>
      additional_files == AdditionalFrom(file_names, 1)
  IN IF file_names = <<>>
     THEN [NoRun EXCEPT !.log = located_log \o <<Event("no_files_found", "error")>>]
     ELSE IF main_file = 0
     THEN [NoRun EXCEPT !.located = file_names, !.returned = file_names,
                        !.log = located_log]
     ELSE IF add_signature_and_flatten(sign_mode[main_file]).raised
     THEN [NoRun EXCEPT !.located = file_names, !.raised = TRUE,
                        !.main_file = main_file, !.fills = <<main_file>>,
                        !.signs = <<main_file>>, !.log = located_log \o fill_log]
     ELSE [located |-> file_names, returned |-> file_names, raised |-> FALSE,
           main_file |-> main_file, additional_files |-> additional_files,
           fills |-> <<main_file>>, signs |-> <<main_file>> \o additional_files,
           log |-> located_log \o fill_log
                     \o <<Event("signature_flatten_finished", "ok")>>
                     \o AdditionalLog(additional_files, sign_mode)]

\* One call of generate_coi_files, from analyze_for_coi_request line 617.
generate_coi_files_call ==
  /\ gf_pc = "idle"
  /\ \E items \in SeqsUpTo(FileNames, MaxDriveItems), fill_mode \in StorageModes,
        sign_mode \in [1..DriveCap -> StorageModes] :
       /\ gf_in' = [items |-> items, fill_mode |-> fill_mode, sign_mode |-> sign_mode]
       /\ gf_out' = generate_coi_files(items, fill_mode, sign_mode)
  /\ gf_pc' = "done"
  /\ UNCHANGED <<storeVars, ewVars, cbVars, prompts, analyzeVars, draftVars, logVars, latest_call, notify_call>>

(* ------------- coi_generator: infer_coi_request_info, analyze ---------- *)
\* The extraction response of the LLM as far as the code looks at it: whether
\* json.loads accepts it, and for each required key whether it is absent,
\* holds an empty string or holds a value.
RequiredKeys == {"insured_name", "holder_name", "holder_addr_1", "holder_addr_2"}
KeyStates == {"absent", "empty", "value"}
InferResponses == [parses : BOOLEAN, keys : [RequiredKeys -> KeyStates]]

\* The {} infer_coi_request_info returns after recording an error.
EmptyData == [k \in RequiredKeys |-> "absent"]

\* Lines 419-432: json.loads(response) and rsp_json['insured_name'] are the
\* only tests; when one raises, the raw response is written to
\* coi_generator_errors and {} is returned.
infer_coi_request_info(response) ==
  IF ~response.parses \/ response.keys["insured_name"] = "absent"
  THEN [data |-> EmptyData, errors |-> <<response>>]
  ELSE [data |-> response.keys, errors |-> <<>>]

\* Lines 606-609: inferred_data.get(k) is truthy for each of the four keys.
HasRequiredInfo(inferred_data) == \A k \in RequiredKeys : inferred_data[k] = "value"

NoRequest == [llm |-> "none", response |-> [parses |-> FALSE, keys |-> EmptyData],
              items |-> <<>>, fill_mode |-> "ok", sign_mode |-> "ok", store_ok |-> TRUE]

NoAnalysis == [effect |-> NoEffect, inferred_data |-> EmptyData, errors |-> <<>>,
               generation |-> NoRun, raised |-> FALSE, coi_generations |-> 0, log |-> <<>>]

\* analyze_steps logging generate_coi_files_completed whatever was returned.
analyze_steps_always_completed(positive, has_info, generation, store_ok) ==
  <<Event("is_coi_request_started", "ok"), Event("is_coi_request_finished", "ok")>>
  \o (IF ~positive THEN <<>>
      ELSE <<Event("infer_coi_request_info_started", "ok"),
             Event("infer_coi_request_info_finished", "ok")>>
           \o (IF ~has_info THEN <<Event("generate_coi_files_skipped", "ok")>>
               ELSE <<Event("generate_coi_files_started", "ok")>>
                    \o (IF generation.raised THEN <<>>
                        ELSE (IF store_ok THEN <<>>
                              ELSE <<Event("firestore_log_failed", "error")>>)
                             \o <<Event("generate_coi_files_completed", "ok")>>)))

\* The log_step calls analyze_for_coi_request makes itself, in order (lines
\* 597-676); the ones generate_coi_files makes are in its own log.  An
\* exception of generate_coi_files (line 620) ends the function there.
analyze_steps(positive, has_info, generation, store_ok) ==
  <<Event("is_coi_request_started", "ok"), Event("is_coi_request_finished", "ok")>>
  \o (IF ~positive THEN <<>>
      ELSE <<Event("infer_coi_request_info_started", "ok"),
             Event("infer_coi_request_info_finished", "ok")>>
           \o (IF ~has_info THEN <<Event("generate_coi_files_skipped", "ok")>>
               ELSE <<Event("generate_coi_files_started", "ok")>>
                    \o (IF generation.raised THEN <<>>
                        ELSE IF generation.returned # <<>>
                        THEN (IF store_ok THEN <<>>
                              ELSE <<Event("firestore_log_failed", "error")>>)
                             \o <<Event("generate_coi_files_completed", "ok")>>
                        ELSE <<Event("generate_coi_files_failed", "error")>>)))

\* One call of analyze_for_coi_request (lines 587-677): the classifier answer,
\* then on a positive answer the extraction, then generation and draft.
\* errors: the documents written to coi_generator_errors, in order.
analyze_for_coi_request_call ==
  /\ an_pc = "idle"
  /\ \E llm \in LlmAnswers, response \in InferResponses,
        items \in SeqsUpTo(FileNames, MaxAnalyzeItems),
        fill_mode \in StorageModes, sign_mode \in StorageModes, store_ok \in BOOLEAN :
       LET positive == is_coi_request(llm).is_likely_coi_request
           inferred == IF positive THEN infer_coi_request_info(response)
                       ELSE [data |-> EmptyData, errors |-> <<>>]
           has_info == HasRequiredInfo(inferred.data)
           generation == IF positive /\ has_info
                         THEN generate_coi_files(items, fill_mode,
                                                 [i \in 1..DriveCap |-> sign_mode])
                         ELSE NoRun
           files == ~generation.raised /\ generation.returned # <<>>
           effect == analyze_for_coi_request(llm, has_info, files)
       IN /\ an_in' = [llm |-> llm, response |-> response, items |-> items,
                       fill_mode |-> fill_mode, sign_mode |-> sign_mode,
                       store_ok |-> store_ok]
          /\ an_out' = [effect |-> effect, inferred_data |-> inferred.data,
                        errors |-> effect.errors \o inferred.errors,
                        generation |-> generation,
                        raised |-> generation.raised,
                        coi_generations |-> IF effect.drafts = 1 /\ store_ok THEN 1 ELSE 0,
                        log |-> analyze_steps(positive, has_info, generation, store_ok)]
  /\ an_pc' = "done"
  /\ UNCHANGED <<storeVars, ewVars, cbVars, prompts, filesVars, draftVars, logVars, latest_call, notify_call>>

(* ------------- coi_generator: recipients of the draft reply ------------ *)
\* An address string as it stands in a header or in the LLM's answer: the
\* mailbox it names, and whether it is written plainly, in another casing,
\* with surrounding whitespace, or wrapped as "Name <addr>".
Mailboxes == {"a", "b"}
Forms == {"plain", "upper", "padded", "display"}
AddressStrings == [addr : Mailboxes, form : Forms]

\* The empty string.
BlankString == [addr |-> "", form |-> "plain"]

\* email_watcher lines 252-253: next(<header value>, "").split(","); the
\* pieces are kept as they stand, and a missing header gives [""].
SplitHeader(pieces) == IF pieces = <<>> THEN <<BlankString>> ELSE pieces

\* Names of generated files passed to the draft, and the calls of the draft's
\* composition that can raise: loading the credentials (lines 464-465),
\* blob.exists and blob.download_as_bytes for the file at index `at` (lines
\* 489, 494), and drafts.create (lines 510-515).
AttachNames == {"main.pdf", "additional.pdf"}
FaultKinds == {"none", "credentials", "exists", "download", "create"}
Faults == [kind : FaultKinds, at : 1..MaxAttach]
NoFault == [kind |-> "none", at |-> 1]

\* Lines 484-506, from the i-th file on: a file that is not in storage is
\* skipped, the others are downloaded and attached in order.
RECURSIVE AttachFrom(_, _, _, _)
AttachFrom(file_names, i, in_storage, fault) ==
  IF i > Len(file_names) THEN [attached |-> <<>>, raised |-> FALSE]
  ELSE IF fault.kind = "exists" /\ fault.at = i THEN [attached |-> <<>>, raised |-> TRUE]
  ELSE IF file_names[i] \notin in_storage
    THEN AttachFrom(file_names, i + 1, in_storage, fault)
  ELSE IF fault.kind = "download" /\ fault.at = i THEN [attached |-> <<>>, raised |-> TRUE]
  ELSE LET rest == AttachFrom(file_names, i + 1, in_storage, fault)
       IN  [attached |-> <<file_names[i]>> \o rest.attached, raised |-> rest.raised]

\* create_draft_coi_reply with the except clause of lines 533-536 left out.
create_draft_coi_reply_no_except(to_emails, cc_emails, file_names, in_storage, fault) ==
  LET files == AttachFrom(file_names, 1, in_storage, fault)
      excepted == fault.kind = "credentials" \/ files.raised \/ fault.kind = "create"
  IN  [to |-> IF excepted THEN <<>> ELSE to_emails,
       cc |-> IF excepted THEN <<>> ELSE cc_emails,
       attached |-> IF excepted THEN <<>> ELSE files.attached,
       submitted |-> ~excepted,
       returned |-> ~excepted,
       raised |-> excepted,
       log |-> IF excepted THEN <<>> ELSE <<Event("draft_created", "ok")>>]

\* create_draft_coi_reply, lines 450-537.  The lists are joined with ", " into
\* the To and Cc headers as they were passed in (lines 468-471; an empty list
\* sets no header), the files found in storage are attached, and the message
\* is submitted with drafts.create.  All of it runs inside one try: whatever
\* raises is logged as draft_create_failed and the function returns False.
create_draft_coi_reply(to_emails, cc_emails, file_names, in_storage, fault) ==
  LET files == AttachFrom(file_names, 1, in_storage, fault)
      excepted == fault.kind = "credentials" \/ files.raised \/ fault.kind = "create"
  IN  [to |-> IF excepted THEN <<>> ELSE to_emails,
       cc |-> IF excepted THEN <<>> ELSE cc_emails,
       attached |-> IF excepted THEN <<>> ELSE files.attached,
       submitted |-> ~excepted,
       returned |-> ~excepted,
       raised |-> FALSE,
       log |-> IF excepted THEN <<Event("draft_create_failed", "error")>>
                         ELSE <<Event("draft_created", "ok")>>]

NoLists == [to_emails |-> <<>>, cc_emails |-> <<>>,
            to_emails_inferred |-> <<>>, cc_emails_inferred |-> <<>>,
            file_names |-> <<>>, in_storage |-> {}, fault |-> NoFault]

NoDraft == [to |-> <<>>, cc |-> <<>>, attached |-> <<>>, submitted |-> FALSE,
            returned |-> FALSE, raised |-> FALSE, log |-> <<>>]

\* Lines 628-643 of analyze_for_coi_request: the To and Cc of the draft are
\* to_emails_inferred and cc_emails_inferred of the extraction response; the
\* original lists, split from the headers by email_watcher, go into the prompt.
create_draft_coi_reply_call ==
  /\ dr_pc = "idle"
  /\ \E to_header \in SeqsUpTo(AddressStrings, MaxHeaderItems),
        cc_header \in SeqsUpTo(AddressStrings, MaxHeaderItems),
        to_emails_inferred \in SeqsUpTo(AddressStrings, MaxRecipients),
        cc_emails_inferred \in SeqsUpTo(AddressStrings, MaxRecipients) :
       /\ dr_in' = [to_emails |-> SplitHeader(to_header),
                    cc_emails |-> SplitHeader(cc_header),
                    to_emails_inferred |-> to_emails_inferred,
                    cc_emails_inferred |-> cc_emails_inferred,
                    file_names |-> <<>>, in_storage |-> {}, fault |-> NoFault]
       /\ dr_out' = create_draft_coi_reply(to_emails_inferred, cc_emails_inferred,
                                           <<>>, {}, NoFault)
  /\ dr_pc' = "done"
  /\ UNCHANGED <<storeVars, ewVars, cbVars, prompts, filesVars, analyzeVars, logVars, latest_call, notify_call>>

\* The same call, over the files it is given, what storage holds and what
\* raises, with one recipient.
create_draft_coi_reply_files ==
  /\ dr_pc = "idle"
  /\ \E file_names \in SeqsUpTo(AttachNames, MaxAttach),
        in_storage \in SUBSET AttachNames, fault \in Faults :
       LET to_emails == <<[addr |-> "a", form |-> "plain"]>>
       IN  /\ dr_in' = [NoLists EXCEPT !.to_emails = to_emails,
                                       !.to_emails_inferred = to_emails,
                                       !.file_names = file_names,
                                       !.in_storage = in_storage,
                                       !.fault = fault]
           /\ dr_out' = create_draft_coi_reply(to_emails, <<>>, file_names,
                                               in_storage, fault)
  /\ dr_pc' = "done"
  /\ UNCHANGED <<storeVars, ewVars, cbVars, prompts, filesVars, analyzeVars, logVars, latest_call, notify_call>>

(* ------------------------ log_step, both services ---------------------- *)
\* Step names the two services log, a few of each.
WatcherSteps == {"email_received", "coi_analysis_failed"}
GeneratorSteps == {"is_coi_request_started", "generate_coi_files_failed"}

\* The status each call site passes with its step name.
StatusOf(step) ==
  IF step \in {"coi_analysis_failed", "generate_coi_files_failed"} THEN "error" ELSE "ok"

\* An event document: its id in the collection (auto: the number of the add
\* that made it, 0 for a named document; name: the document name, "" for an
\* added one) and its payload.
EventDoc(auto, name, step, service, at) ==
  [auto |-> auto, name |-> name, step |-> step, status |-> StatusOf(step),
   service |-> service, at |-> at]

\* collection.add(payload): a new document under a fresh id.
FirestoreAdd(docs, step, service, at) ==
  docs \cup {EventDoc(at, "", step, service, at)}

\* collection.document(name).set(payload, merge=True): the document of that
\* name takes the fields of the payload, whether or not it existed.
FirestoreSetMerge(docs, name, step, service, at) ==
  {d \in docs : d.name # name} \cup {EventDoc(0, name, step, service, at)}

\* log_step without its except clause.
log_step_no_except(written) == [stored |-> written, raised |-> ~written]

\* The try/except around the body of log_step (email_watcher lines 37-66,
\* coi_generator lines 45-71): a write that fails is printed and the call
\* returns normally.
log_step_try(written) == [stored |-> written, raised |-> FALSE]

\* email_watcher log_step, lines 36-66: with a thread id the event is added
\* to the thread's events; without one it is set on the document step_<step>.
email_watcher_log_step ==
  /\ log_clock < MaxLogSteps
  /\ log_clock' = log_clock + 1
  /\ \E step \in WatcherSteps, thread_id \in Threads \cup {None}, written \in BOOLEAN :
       LET outcome == log_step_try(written)
       IN  /\ log_raised' = outcome.raised
           /\ IF ~outcome.stored THEN UNCHANGED <<flow_log, flow_top>>
              ELSE IF thread_id # None
              THEN /\ flow_log' = [flow_log EXCEPT ![thread_id] =
                                      FirestoreAdd(@, step, "email_watcher", log_clock')]
                   /\ UNCHANGED flow_top
              ELSE /\ flow_top' = FirestoreSetMerge(flow_top, step, step, "email_watcher",
                                                    log_clock')
                   /\ UNCHANGED flow_log
  /\ UNCHANGED <<storeVars, ewVars, cbVars, prompts, filesVars, analyzeVars, draftVars,
                 latest_call, notify_call>>

\* coi_generator log_step, lines 44-71: with a thread id the event is set on
\* the document named after the step in the thread's events; without one it
\* is added directly under coi_flow_logs.
coi_generator_log_step ==
  /\ log_clock < MaxLogSteps
  /\ log_clock' = log_clock + 1
  /\ \E step \in GeneratorSteps, thread_id \in Threads \cup {None}, written \in BOOLEAN :
       LET outcome == log_step_try(written)
       IN  /\ log_raised' = outcome.raised
           /\ IF ~outcome.stored THEN UNCHANGED <<flow_log, flow_top>>
              ELSE IF thread_id # None
              THEN /\ flow_log' = [flow_log EXCEPT ![thread_id] =
                                      FirestoreSetMerge(@, step, step, "coi_generator",
                                                        log_clock')]
                   /\ UNCHANGED flow_top
              ELSE /\ flow_top' = FirestoreAdd(flow_top, step, "coi_generator", log_clock')
                   /\ UNCHANGED flow_log
  /\ UNCHANGED <<storeVars, ewVars, cbVars, prompts, filesVars, analyzeVars, draftVars,
                 latest_call, notify_call>>

(* ------------------- email_watcher: get_latest_thread ------------------ *)
\* internalDate values as the API gives them, strings; "x" is not a number.
InternalDates == {"x", "0", "1", "2"}

\* int(m.get('internalDate', '0')) inside try/except, lines 234-237.
ParseInternalDate(d) ==
  CASE d = "0" -> 0 [] d = "1" -> 1 [] d = "2" -> 2 [] OTHER -> 0

\* A listing: for each listed thread, in order, the internalDate of each of
\* its messages (thread.get('messages', []), line 232).
Listings == SeqsUpTo(SeqsUpTo(InternalDates, MaxMessages), MaxListed)

\* Lines 233-240, the messages of the i-th thread from the j-th on.
RECURSIVE ScanMessages(_, _, _, _)
ScanMessages(threads, i, j, acc) ==
  IF j > Len(threads[i]) THEN acc
  ELSE LET ts == ParseInternalDate(threads[i][j])
       IN  ScanMessages(threads, i, j + 1,
             IF ts > acc.latest_ts
             THEN [latest_ts |-> ts, latest_thread |-> i]
             ELSE acc)

\* Lines 226-240, the threads from the i-th on.
RECURSIVE ScanThreads(_, _, _)
ScanThreads(threads, i, acc) ==
  IF i > Len(threads) THEN acc
  ELSE ScanThreads(threads, i + 1, ScanMessages(threads, i, 1, acc))

\* get_latest_thread, lines 208-242: the index in the listing of the thread
\* returned, None when None is returned.
get_latest_thread(threads) ==
  IF threads = <<>> THEN None
  ELSE ScanThreads(threads, 1, [latest_ts |-> -1, latest_thread |-> None]).latest_thread

NoLatest == [pc |-> "idle", threads |-> <<>>, returned |-> None]

\* Line 272 of email_watcher.
get_latest_thread_call ==
  /\ latest_call.pc = "idle"
  /\ \E threads \in Listings :
       latest_call' = [pc |-> "done", threads |-> threads,
                  returned |-> get_latest_thread(threads)]
  /\ UNCHANGED <<storeVars, ewVars, cbVars, prompts, genVars, notify_call>>

(* ------------------------ telegram_bot --------------------------------- *)
\* The record notify_about_coi_request stores with doc_ref.set (no merge).
notify_about_coi_request(pr, t, ii, hi) ==
  [pr EXCEPT ![t] = [status |-> "pending", insured_inferred |-> ii, holder_inferred |-> hi]]

\* No message sent yet.
NoMessage == [text |-> "none", buttons |-> FALSE]

\* notify_about_coi_request sending the Send / Don't send buttons with every
\* message, the two manual-check messages included.
notify_message_always_buttons(ii, hi) ==
  [text |-> IF ~ii THEN "check_insured" ELSE IF ~hi THEN "check_holder" ELSE "preview",
   buttons |-> TRUE]

\* Lines 175-211 of notify_about_coi_request: without an inferred insured, and
\* else without an inferred holder, a "please check manually" message goes out
\* through send_message with no buttons; otherwise the preview with the
\* send:<thread_id> and nosend:<thread_id> buttons.
notify_message(ii, hi) ==
  IF ~ii THEN [text |-> "check_insured", buttons |-> FALSE]
  ELSE IF ~hi THEN [text |-> "check_holder", buttons |-> FALSE]
  ELSE [text |-> "preview", buttons |-> TRUE]

\* doc_ref.get() of pending_requests/msg_<thread_id>; a callback token without
\* ":" gives thread_id None, and msg_None is never written.
PendingDoc(pr, t) == IF t \in Threads THEN pr[t] ELSE NoDoc

\* handle_callback without the "already resolved" test of lines 91-95.
callback_check_unguarded(doc) ==
  IF doc.status = "absent" THEN "not_found" ELSE "proceed"

\* handle_callback without the doc.exists test of lines 83-87.
callback_check_no_exists(doc) ==
  IF doc.status \notin {"absent", "pending"} THEN "already_resolved" ELSE "proceed"

\* Lines 83-95 of handle_callback: a missing record and a record whose status
\* is set and not "pending" both end the call.
callback_check(doc) ==
  IF doc.status = "absent" THEN "not_found"
  ELSE IF doc.status # "pending" THEN "already_resolved"
  ELSE "proceed"

\* handle_callback with the generate_coi request of lines 105-121 posted on
\* "nosend" as well.
callback_decide_nosend_posts(S, action, t) ==
  IF action \in {"send", "nosend"}
  THEN [pending_requests |->
          [S.pending_requests EXCEPT ![t].status = IF action = "send" THEN "sent" ELSE "skipped"],
        triggers |-> [S.triggers EXCEPT ![t] = @ + 1],
        effect |-> coi_generator("generate_coi", "true", TRUE, TRUE).effect,
        outcome |-> IF action = "send" THEN "sent" ELSE "skipped"]
  ELSE [S EXCEPT !.outcome = "ignored"]

\* Lines 97-130 of handle_callback: "send" updates the status and posts the
\* generate_coi request to the generator; "nosend" updates the status; any
\* other action does nothing.  S holds the approval records and the counters.
callback_decide(S, action, t) ==
  IF action = "send"
  THEN [pending_requests |-> [S.pending_requests EXCEPT ![t].status = "sent"],
        triggers |-> [S.triggers EXCEPT ![t] = @ + 1],
        effect |-> coi_generator("generate_coi", "true", TRUE, TRUE).effect,
        outcome |-> "sent"]
  ELSE IF action = "nosend"
  THEN [S EXCEPT !.pending_requests[t].status = "skipped", !.outcome = "skipped"]
  ELSE [S EXCEPT !.outcome = "ignored"]

\* handle_callback run from line 59 to its return with no other request between.
handle_callback(S, action, t) ==
  LET c == callback_check(PendingDoc(S.pending_requests, t))
  IN IF c = "proceed" THEN callback_decide(S, action, t) ELSE [S EXCEPT !.outcome = c]

GateState ==
  [pending_requests |-> pending_requests, triggers |-> triggers, effect |-> NoEffect,
   outcome |-> "none"]

\* telegram_bot, lines 222-223: a request carrying thread_id is a notification.
telegram_bot_notify ==
  \E t \in Threads, ii \in BOOLEAN, hi \in BOOLEAN :
    /\ notifies < MaxNotifies
    /\ notifies' = notifies + 1
    /\ created' = [created EXCEPT ![t] = @ + 1]
    /\ pending_requests' = notify_about_coi_request(pending_requests, t, ii, hi)
    /\ prompts' = [prompts EXCEPT ![t] = notify_message(ii, hi)]
    /\ UNCHANGED <<locks, last_thread_id, ewVars,
                   cb_pc, cb_thread, cb_action, cb_outcome, cb_effect, triggers, genVars, latest_call, notify_call>>

NoNotify == [pc |-> "idle", thread_id |-> None, insured_inferred |-> FALSE,
             holder_inferred |-> FALSE]

\* notify_about_coi_request going on to its message although doc_ref.set raised.
notify_about_coi_request_set_unchecked(stored) ==
  /\ notify_call.pc = "idle"
  /\ notifies < MaxNotifies
  /\ notifies' = notifies + 1
  /\ \E t \in Threads, ii \in BOOLEAN, hi \in BOOLEAN :
       /\ created' = [created EXCEPT ![t] = IF stored THEN @ + 1 ELSE @]
       /\ pending_requests' =
            IF stored THEN notify_about_coi_request(pending_requests, t, ii, hi)
                      ELSE pending_requests
       /\ notify_call' = [pc |-> "send", thread_id |-> t,
                          insured_inferred |-> ii, holder_inferred |-> hi]
  /\ UNCHANGED <<locks, last_thread_id, ewVars, cb_pc, cb_thread, cb_action, cb_outcome,
                 cb_effect, triggers, prompts, genVars, latest_call>>

\* notify_about_coi_request, lines 150-169: the record is written with
\* doc_ref.set; when the write raises the function is left and no message
\* follows.
notify_about_coi_request_set(stored) ==
  /\ notify_call.pc = "idle"
  /\ notifies < MaxNotifies
  /\ notifies' = notifies + 1
  /\ \E t \in Threads, ii \in BOOLEAN, hi \in BOOLEAN :
       /\ created' = [created EXCEPT ![t] = IF stored THEN @ + 1 ELSE @]
       /\ pending_requests' =
            IF stored THEN notify_about_coi_request(pending_requests, t, ii, hi)
                      ELSE pending_requests
       /\ notify_call' = IF stored
                         THEN [pc |-> "send", thread_id |-> t,
                               insured_inferred |-> ii, holder_inferred |-> hi]
                         ELSE NoNotify
  /\ UNCHANGED <<locks, last_thread_id, ewVars, cb_pc, cb_thread, cb_action, cb_outcome,
                 cb_effect, triggers, prompts, genVars, latest_call>>

\* notify_about_coi_request, lines 171-211: the message is posted with
\* send_message; a post that raises delivers nothing.
notify_about_coi_request_send(delivered) ==
  /\ notify_call.pc = "send"
  /\ prompts' = IF delivered
                THEN [prompts EXCEPT ![notify_call.thread_id] =
                        notify_message(notify_call.insured_inferred,
                                       notify_call.holder_inferred)]
                ELSE prompts
  /\ notify_call' = NoNotify
  /\ UNCHANGED <<storeVars, ewVars, cbVars, genVars, latest_call>>

\* handle_callback, lines 59-95: the token is parsed, the record read and checked.
\* The locals action and thread_id live until the invocation returns.
handle_callback_get(c) ==
  /\ cb_pc[c] = "idle"
  /\ \E action \in {"send", "nosend", "other"}, t \in Threads \cup {None} :
       LET r == callback_check(PendingDoc(pending_requests, t))
       IN /\ cb_action' = [cb_action EXCEPT ![c] = IF r = "proceed" THEN action ELSE "none"]
          /\ cb_thread' = [cb_thread EXCEPT ![c] = IF r = "proceed" THEN t ELSE None]
          /\ cb_pc' = [cb_pc EXCEPT ![c] = IF r = "proceed" THEN "update" ELSE "done"]
          /\ cb_outcome' = [cb_outcome EXCEPT ![c] = IF r = "proceed" THEN "none" ELSE r]
  /\ UNCHANGED <<storeVars, ewVars, cb_effect, notifies, created, triggers, prompts, genVars, latest_call, notify_call>>

\* handle_callback, lines 97-130: the write that follows the read.
handle_callback_update(c) ==
  /\ cb_pc[c] = "update"
  /\ LET S == callback_decide(GateState, cb_action[c], cb_thread[c])
     IN /\ pending_requests' = S.pending_requests
        /\ triggers' = S.triggers
        /\ cb_effect' = [cb_effect EXCEPT ![c] = S.effect]
        /\ cb_outcome' = [cb_outcome EXCEPT ![c] = S.outcome]
  /\ cb_pc' = [cb_pc EXCEPT ![c] = "done"]
  /\ cb_action' = [cb_action EXCEPT ![c] = "none"]
  /\ cb_thread' = [cb_thread EXCEPT ![c] = None]
  /\ UNCHANGED <<locks, last_thread_id, ewVars, notifies, created, prompts, genVars, latest_call, notify_call>>

(* ------------------------ email_watcher -------------------------------- *)
TypeOK ==
  /\ locks \in [Threads -> Workers \cup {NoLock}]
  /\ last_thread_id \in Threads \cup {None}
  /\ ew_pc \in [Workers -> {"idle", "acquire_get", "acquire_create", "check",
                            "handle", "save", "release", "done", "crashed"}]
  /\ ew_thread \in [Workers -> Threads \cup {None}]
  /\ ew_holds \in [Workers -> BOOLEAN]
  /\ notifications \in 0..MaxNotifications
  /\ cb_pc \in [Callers -> {"idle", "update", "done"}]
  /\ notifies \in 0..MaxNotifies

\* Lines 262-273: the envelope is decoded and the latest thread resolved.  An
\* envelope without "data" is acknowledged at once; get_latest_thread returning
\* None makes thread['id'] raise before the lock is tried.
email_watcher_receive(w) ==
  /\ ew_pc[w] \in {"idle", "done"}
  /\ notifications < MaxNotifications
  /\ notifications' = notifications + 1
  /\ \E has_data \in BOOLEAN, latest \in Threads \cup {None} :
       /\ ~has_data => latest = None    \* not read without "data"
       /\ ew_thread' = [ew_thread EXCEPT ![w] = IF has_data THEN latest ELSE None]
       /\ ew_pc' = [ew_pc EXCEPT ![w] =
                      IF has_data /\ latest # None THEN "acquire_get" ELSE "done"]
       /\ ew_exit' = [ew_exit EXCEPT ![w] =
                      IF ~has_data THEN "no_data"
                      ELSE IF latest = None THEN "no_thread" ELSE "none"]
       /\ ew_ack' = [ew_ack EXCEPT ![w] =
                      IF ~has_data THEN "204"
                      ELSE IF latest = None THEN "exception" ELSE "none"]
  /\ ew_holds' = [ew_holds EXCEPT ![w] = FALSE]
  /\ ew_result' = [ew_result EXCEPT ![w] = "none"]
  /\ ew_effect' = [ew_effect EXCEPT ![w] = NoEffect]
  /\ UNCHANGED <<storeVars, handled, failed, cbVars, prompts, genVars, latest_call, notify_call>>

\* The duplicate-trigger return moved inside the try/finally: it would delete
\* the lock of the invocation that holds it.
lock_held_return_in_finally(w) ==
  /\ ew_pc' = [ew_pc EXCEPT ![w] = "done"]
  /\ ew_exit' = [ew_exit EXCEPT ![w] = "lock_held"]
  /\ ew_ack' = [ew_ack EXCEPT ![w] = "204"]
  /\ locks' = [locks EXCEPT ![ew_thread[w]] = NoLock]
  /\ UNCHANGED <<last_thread_id, pending_requests, ew_thread, ew_holds, ew_result,
                 ew_effect, notifications, handled, failed, cbVars, prompts, genVars, latest_call, notify_call>>

\* Lines 276-278: acquire returned False; the duplicate trigger is logged and
\* acknowledged.  This return is outside the try/finally.
lock_held_return(w) ==
  /\ ew_pc' = [ew_pc EXCEPT ![w] = "done"]
  /\ ew_exit' = [ew_exit EXCEPT ![w] = "lock_held"]
  /\ ew_ack' = [ew_ack EXCEPT ![w] = "204"]
  /\ UNCHANGED <<storeVars, ew_thread, ew_holds, ew_result, ew_effect, notifications, handled, failed, cbVars, prompts, genVars, latest_call, notify_call>>

\* acquire with an expiry: the record of a holder that is gone counts as
\* expired, is deleted, and the acquisition goes on to create its own.
acquire_processing_lock_get_expiring(w) ==
  /\ ew_pc[w] = "acquire_get"
  /\ IF locks[ew_thread[w]] # NoLock /\ ew_pc[locks[ew_thread[w]]] # "crashed"
     THEN lock_held_return(w)
     ELSE /\ locks' = [locks EXCEPT ![ew_thread[w]] = NoLock]
          /\ ew_pc' = [ew_pc EXCEPT ![w] = "acquire_create"]
          /\ UNCHANGED <<last_thread_id, pending_requests, ew_thread, ew_holds, ew_result,
                         ew_effect, ew_exit, ew_ack, notifications, handled, failed,
                         cbVars, prompts, genVars, latest_call, notify_call>>

\* Lines 116-121: lock_ref.get(); an existing record makes acquire return False.
acquire_processing_lock_get(w) ==
  /\ ew_pc[w] = "acquire_get"
  /\ IF locks[ew_thread[w]] # NoLock
     THEN lock_held_return(w)
     ELSE /\ ew_pc' = [ew_pc EXCEPT ![w] = "acquire_create"]
          /\ UNCHANGED <<storeVars, ew_thread, ew_holds, ew_result, ew_effect, ew_exit, ew_ack,
                         notifications, handled, failed, cbVars, prompts, genVars, latest_call, notify_call>>

\* lock_ref.create: Firestore refuses to create a document that exists.
FirestoreCreate(coll, id, value) ==
  IF coll[id] # NoLock THEN [ok |-> FALSE, coll |-> coll]
  ELSE [ok |-> TRUE, coll |-> [coll EXCEPT ![id] = value]]

\* acquire written with lock_ref.set instead of lock_ref.create: the write
\* succeeds over an existing record.
acquire_processing_lock_set(w) ==
  /\ ew_pc[w] = "acquire_create"
  /\ locks' = [locks EXCEPT ![ew_thread[w]] = w]
  /\ ew_holds' = [ew_holds EXCEPT ![w] = TRUE]
  /\ ew_pc' = [ew_pc EXCEPT ![w] = "check"]
  /\ UNCHANGED <<last_thread_id, pending_requests, ew_thread,
                 ew_result, ew_effect, ew_exit, ew_ack, notifications, handled, failed, cbVars, prompts, genVars, latest_call, notify_call>>

\* Lines 122-130: lock_ref.create(...); any exception makes acquire return False.
acquire_processing_lock_create(w) ==
  /\ ew_pc[w] = "acquire_create"
  /\ LET r == FirestoreCreate(locks, ew_thread[w], w) IN
       IF r.ok
       THEN /\ locks' = r.coll
            /\ ew_holds' = [ew_holds EXCEPT ![w] = TRUE]
            /\ ew_pc' = [ew_pc EXCEPT ![w] = "check"]
            /\ UNCHANGED <<last_thread_id, pending_requests, ew_thread,
                           ew_result, ew_effect, ew_exit, ew_ack, notifications, handled, failed, cbVars, prompts, genVars, latest_call, notify_call>>
       ELSE lock_held_return(w)

\* Lines 98-102.
get_last_processed_id == last_thread_id

\* The early returns of lines 283-293 placed before the try: they would leave
\* without passing the finally clause.
email_watcher_check_outside_try(w) ==
  /\ ew_pc[w] = "check"
  /\ \E has_messages \in BOOLEAN, extract_ok \in BOOLEAN :
       LET path == IF ~has_messages THEN "empty_thread"
                   ELSE IF ~extract_ok THEN "extract_error"
                   ELSE IF ew_thread[w] = last_thread_id THEN "watermark_skip"
                   ELSE "none"
       IN /\ ew_exit' = [ew_exit EXCEPT ![w] = path]
          /\ ew_ack' = [ew_ack EXCEPT ![w] =
                          CASE path = "extract_error" -> "exception"
                            [] path = "none" -> "none"
                            [] OTHER -> "204"]
          /\ ew_pc' = [ew_pc EXCEPT ![w] = IF path = "none" THEN "handle" ELSE "done"]
  /\ UNCHANGED <<storeVars, ew_thread, ew_holds, ew_result, ew_effect, notifications,
                 handled, failed, cbVars, prompts, genVars, latest_call, notify_call>>

\* Lines 280-293, inside the try: an empty thread and a thread equal to the
\* watermark return early; get_last_email_contents may raise (msg_data["payload"]).
email_watcher_check(w) ==
  /\ ew_pc[w] = "check"
  /\ \E has_messages \in BOOLEAN, extract_ok \in BOOLEAN :
       LET path == IF ~has_messages THEN "empty_thread"
                   ELSE IF ~extract_ok THEN "extract_error"
                   ELSE IF ew_thread[w] = get_last_processed_id THEN "watermark_skip"
                   ELSE "none"
       IN /\ ew_exit' = [ew_exit EXCEPT ![w] = path]
          /\ ew_ack' = [ew_ack EXCEPT ![w] =
                          CASE path = "extract_error" -> "exception"
                            [] path = "none" -> "none"
                            [] OTHER -> "204"]
          /\ ew_pc' = [ew_pc EXCEPT ![w] = IF path = "none" THEN "handle" ELSE "release"]
  /\ UNCHANGED <<storeVars, ew_thread, ew_holds, ew_result, ew_effect, notifications, handled, failed, cbVars, prompts, genVars, latest_call, notify_call>>

\* Lines 141-207.  The POST to the generator either fails (timeout, connection)
\* or reaches the service, which runs analyze_for_coi_request and answers.
\* .json() on a reply without a body raises, which the except clause of
\* lines 170-173 turns into coi_analysis_failed and a plain return.
handle_email(w) ==
  /\ ew_pc[w] = "handle"
  /\ \E reached \in BOOLEAN, llm \in LlmAnswers, complete \in BOOLEAN, files \in BOOLEAN,
        notify_ok \in BOOLEAN :
       LET t == ew_thread[w]
           svc == IF reached
                  THEN coi_generator("analyze_for_coi_request", llm, complete, files)
                  ELSE [effect |-> NoEffect, reply |-> EmptyReply]
           analysis == svc.reply
           parsed == reached /\ analysis.has_json
           notified == parsed /\ analysis.is_likely_coi_request /\ notify_ok
       IN \* inputs that are not read on this path are held at one value
          /\ ~reached => (llm = "true" /\ complete /\ files)
          /\ ~(parsed /\ analysis.is_likely_coi_request) => notify_ok
          /\ ew_effect' = [ew_effect EXCEPT ![w] = svc.effect]
          /\ pending_requests' =
               IF notified
               THEN notify_about_coi_request(pending_requests, t,
                        analysis.insured_inferred, analysis.holder_inferred)
               ELSE pending_requests
          /\ prompts' =
               IF notified
               THEN [prompts EXCEPT ![t] =
                       notify_message(analysis.insured_inferred, analysis.holder_inferred)]
               ELSE prompts
          /\ ew_result' = [ew_result EXCEPT ![w] =
               IF ~parsed THEN "coi_analysis_failed"
               ELSE IF ~analysis.is_likely_coi_request THEN "not_coi_request"
               ELSE IF notify_ok THEN "telegram_notified" ELSE "telegram_notify_failed"]
  /\ handled' = handled \cup {ew_thread[w]}
  /\ failed' = IF ew_result'[w] = "coi_analysis_failed"
                THEN failed \cup {ew_thread[w]}
                ELSE failed \ {ew_thread[w]}
  /\ ew_pc' = [ew_pc EXCEPT ![w] = "save"]
  /\ UNCHANGED <<locks, last_thread_id, ew_thread, ew_holds, ew_exit, ew_ack,
                 notifications, cbVars, genVars, latest_call, notify_call>>

\* Lines 105-109, called at line 299 whenever handle_email returned; nothing
\* handle_email did is referred to from here on.
save_last_processed_id(w) ==
  /\ ew_pc[w] = "save"
  /\ last_thread_id' = ew_thread[w]
  /\ ew_pc' = [ew_pc EXCEPT ![w] = "release"]
  /\ ew_exit' = [ew_exit EXCEPT ![w] = "handled"]
  /\ ew_ack' = [ew_ack EXCEPT ![w] = "204"]
  /\ ew_result' = [ew_result EXCEPT ![w] = "none"]
  /\ ew_effect' = [ew_effect EXCEPT ![w] = NoEffect]
  /\ UNCHANGED <<locks, pending_requests, ew_thread, ew_holds,
                 notifications, handled, failed, cbVars, prompts, genVars, latest_call, notify_call>>

\* Lines 133-138, the finally clause of line 300: unconditional delete, after
\* which the invocation returns (or the exception propagates) and its locals go.
release_processing_lock(w) ==
  /\ ew_pc[w] = "release"
  /\ locks' = [locks EXCEPT ![ew_thread[w]] = NoLock]
  /\ ew_holds' = [ew_holds EXCEPT ![w] = FALSE]
  /\ ew_pc' = [ew_pc EXCEPT ![w] = "done"]
  /\ ew_result' = [ew_result EXCEPT ![w] = "none"]
  /\ ew_effect' = [ew_effect EXCEPT ![w] = NoEffect]
  /\ UNCHANGED <<last_thread_id, pending_requests, ew_thread, ew_exit, ew_ack,
                 notifications, handled, failed, cbVars, prompts, genVars, latest_call, notify_call>>

Init ==
  /\ locks = [t \in Threads |-> NoLock]
  /\ last_thread_id = None
  /\ pending_requests = [t \in Threads |-> NoDoc]
  /\ ew_pc = [w \in Workers |-> "idle"]
  /\ ew_thread = [w \in Workers |-> None]
  /\ ew_holds = [w \in Workers |-> FALSE]
  /\ ew_result = [w \in Workers |-> "none"]
  /\ ew_effect = [w \in Workers |-> NoEffect]
  /\ ew_exit = [w \in Workers |-> "none"]
  /\ ew_ack = [w \in Workers |-> "none"]
  /\ notifications = 0
  /\ handled = {}
  /\ failed = {}
  /\ cb_pc = [c \in Callers |-> "idle"]
  /\ cb_thread = [c \in Callers |-> None]
  /\ cb_action = [c \in Callers |-> "none"]
  /\ cb_outcome = [c \in Callers |-> "none"]
  /\ cb_effect = [c \in Callers |-> NoEffect]
  /\ notifies = 0
  /\ created = [t \in Threads |-> 0]
  /\ triggers = [t \in Threads |-> 0]
  /\ prompts = [t \in Threads |-> NoMessage]
  /\ gf_pc = "idle"
  /\ gf_in = NoCall
  /\ gf_out = NoRun
  /\ an_pc = "idle"
  /\ an_in = NoRequest
  /\ an_out = NoAnalysis
  /\ dr_pc = "idle"
  /\ dr_in = NoLists
  /\ dr_out = NoDraft
  /\ flow_log = [t \in Threads |-> {}]
  /\ flow_top = {}
  /\ log_clock = 0
  /\ log_raised = FALSE
  /\ latest_call = NoLatest
  /\ notify_call = NoNotify

\* The ingest service: concurrent email_watcher invocations.
Next ==
  \E w \in Workers :
    \/ email_watcher_receive(w)
    \/ acquire_processing_lock_get(w)
    \/ acquire_processing_lock_create(w)
    \/ email_watcher_check(w)
    \/ handle_email(w)
    \/ save_last_processed_id(w)
    \/ release_processing_lock(w)

Spec == Init /\ [][Next]_vars

\* The instance running an invocation is killed (timeout, out of memory,
\* eviction) after acquire_processing_lock returned True at line 276 and before
\* the delete of line 136 was sent: the finally clause does not run and nothing
\* of the invocation is left but what it wrote to the store.
Crash(w) ==
  /\ ew_pc[w] \in {"check", "handle", "save", "release"}
  /\ ew_pc' = [ew_pc EXCEPT ![w] = "crashed"]
  /\ ew_exit' = [ew_exit EXCEPT ![w] = "crashed"]
  /\ ew_result' = [ew_result EXCEPT ![w] = "none"]
  /\ ew_effect' = [ew_effect EXCEPT ![w] = NoEffect]
  /\ UNCHANGED <<storeVars, ew_thread, ew_holds, ew_ack, notifications, handled, failed,
                 cbVars, prompts, genVars, latest_call, notify_call>>

\* The ingest handler on instances that may be killed while holding a lock.
NextCrash ==
  \E w \in Workers :
    \/ email_watcher_receive(w)
    \/ acquire_processing_lock_get(w)
    \/ acquire_processing_lock_create(w)
    \/ email_watcher_check(w)
    \/ handle_email(w)
    \/ save_last_processed_id(w)
    \/ release_processing_lock(w)
    \/ Crash(w)

SpecCrash == Init /\ [][NextCrash]_vars

\* The approval gate: notifications and concurrent callbacks at telegram_bot.
NextGate ==
  \/ telegram_bot_notify
  \/ \E c \in Callers :
       \/ handle_callback_get(c)
       \/ handle_callback_update(c)

SpecGate == Init /\ [][NextGate]_vars

\* generate_coi_files on every Drive listing and storage behaviour.
NextFiles == generate_coi_files_call

SpecFiles == Init /\ [][NextFiles]_vars

\* analyze_for_coi_request on every pair of LLM answers.
NextAnalyze == analyze_for_coi_request_call

SpecAnalyze == Init /\ [][NextAnalyze]_vars

\* The draft reply on every original and inferred recipient list.
NextDraft == create_draft_coi_reply_call

SpecDraft == Init /\ [][NextDraft]_vars

\* The log_step calls of the two services on the flow logs, in any order.
NextLog ==
  \/ email_watcher_log_step
  \/ coi_generator_log_step

SpecLog == Init /\ [][NextLog]_vars

\* One draft of a reply while approval records are being stored.
NextDeliver ==
  \/ telegram_bot_notify
  \/ create_draft_coi_reply_files

SpecDeliver == Init /\ [][NextDeliver]_vars

NextLatest == get_latest_thread_call

SpecLatest == Init /\ [][NextLatest]_vars

\* telegram_bot with notify_about_coi_request taken call by call: a callback
\* arrives before, between or after the write of the record and the message.
\* One callback invocation is enough here, the callbacks do not delete records.
NextNotify ==
  \/ \E stored \in BOOLEAN : notify_about_coi_request_set(stored)
  \/ \E delivered \in BOOLEAN : notify_about_coi_request_send(delivered)
  \/ handle_callback_get(1)
  \/ handle_callback_update(1)

SpecNotify == Init /\ [][NextNotify]_vars

\* A few log_step calls of both services while approval records are being
\* stored.
NextLogStore ==
  \/ log_clock < MaxStoreLogSteps /\ email_watcher_log_step
  \/ log_clock < MaxStoreLogSteps /\ coi_generator_log_step
  \/ telegram_bot_notify

SpecLogStore == Init /\ [][NextLogStore]_vars

(* ============================== claims ================================= *)

\* C1: for every thread, at most one invocation at a time has had
\* acquire_processing_lock return True and not yet released, and the lock
\* record of a holder is the one it created (acquire never overwrites it).
C1_MutualExclusion ==
  /\ \A w1, w2 \in Workers :
       (w1 # w2 /\ ew_holds[w1] /\ ew_holds[w2]) => ew_thread[w1] # ew_thread[w2]
  /\ \A w \in Workers : ew_holds[w] => locks[ew_thread[w]] = w

\* Two invocations passed the existence test for the same thread; one created
\* the record and holds it while the other is about to call create.
C1_Witness ==
  \E w1, w2 \in Workers :
    /\ w1 # w2
    /\ ew_thread[w1] = ew_thread[w2]
    /\ ew_holds[w1]
    /\ ew_pc[w2] = "acquire_create"

\* C2: the status of an approval record changes only from pending to sent or
\* to skipped; a record that is sent or skipped keeps its status.
C2_StatusTransitions ==
  [][\A t \in Threads :
       /\ pending_requests[t].status \in {"sent", "skipped"}
            => pending_requests'[t].status = pending_requests[t].status
       /\ pending_requests[t].status = "pending"
            => pending_requests'[t].status \in {"pending", "sent", "skipped"}]_vars

\* C3: for every approval record that was created, at most one generate_coi
\* request is posted, however the accept callbacks for it interleave.
C3_SingleTrigger == \A t \in Threads : triggers[t] <= created[t]

\* C4: handle_email is never begun for a thread for which it has already
\* returned once.
C4_AtMostOncePerThread ==
  [][\A w \in Workers :
       (ew_pc[w] = "handle" /\ ew_pc'[w] = "save") => ew_thread[w] \notin handled]_vars

\* C5: generate_coi_files and create_draft_coi_reply are called for a thread
\* only once its approval record is in status sent.
C5_ApprovalBeforeGeneration ==
  \A w \in Workers :
    (ew_effect[w].gen_runs > 0 \/ ew_effect[w].drafts > 0)
      => pending_requests[ew_thread[w]].status = "sent"

\* C6: an accept callback that moved the record to sent caused exactly one
\* generate_coi_files run and exactly one create_draft_coi_reply call.
C6_AcceptGeneratesOnce ==
  \A c \in Callers :
    cb_outcome[c] = "sent" => (cb_effect[c].gen_runs = 1 /\ cb_effect[c].drafts = 1)

\* C7: an invocation whose classifier call or approval notification failed
\* leaves the watermark unchanged.
C7_WatermarkOnlyAfterSuccess ==
  [][\A w \in Workers :
       (/\ ew_pc[w] = "save"
        /\ ew_pc'[w] # "save"
        /\ ew_result[w] \in {"coi_analysis_failed", "telegram_notify_failed"})
         => last_thread_id' = last_thread_id]_vars

C9_ShortCircuit ==
  [][\A w \in Workers :
       (/\ ew_pc[w] \in {"acquire_get", "acquire_create"}
        /\ locks[ew_thread[w]] # NoLock
        /\ ew_pc'[w] # ew_pc[w])
         => /\ ew_pc'[w] = "done"
            /\ ew_ack'[w] = "204"
            /\ ew_holds'[w] = FALSE
            /\ UNCHANGED <<locks, last_thread_id, pending_requests, handled,
                           ew_effect, ew_result, triggers>>]_vars

\* The second invocation for a thread has short-circuited while the first one
\* still holds the lock of that thread.
C9_Witness ==
  \E w1, w2 \in Workers :
    /\ w1 # w2
    /\ ew_thread[w1] = ew_thread[w2]
    /\ ew_holds[w1]
    /\ locks[ew_thread[w1]] = w1
    /\ ew_pc[w2] = "done"
    /\ ew_exit[w2] = "lock_held"
    /\ ew_ack[w2] = "204"

\* C10: for decisions d1 and d2, handle_callback(d1) followed by
\* handle_callback(d2) on the same thread leaves the approval records and the
\* posted generate_coi requests as handle_callback(d1) alone left them.
C10_ResolveIdempotent ==
  \A t \in Threads, d1 \in {"send", "nosend"}, d2 \in {"send", "nosend"} :
    LET S1 == handle_callback(GateState, d1, t)
        S2 == handle_callback(S1, d2, t)
    IN /\ S2.pending_requests = S1.pending_requests
       /\ S2.triggers = S1.triggers
       /\ S1.outcome \in {"sent", "skipped"} => S2.outcome = "already_resolved"

\* One callback resolved a record and a later one found it already resolved.
C10_Witness ==
  \E c1, c2 \in Callers :
    /\ c1 # c2
    /\ cb_pc[c1] = "done" /\ cb_outcome[c1] \in {"sent", "skipped"}
    /\ cb_pc[c2] = "done" /\ cb_outcome[c2] = "already_resolved"
    /\ \E t \in Threads : pending_requests[t].status \in {"sent", "skipped"}

\* C11: after a positive classification the ingest invocation ends with a
\* pending approval record for its thread.  An invocation that is past
\* handle_email with a positive classification has a pending record for its
\* thread.
C11_PositiveReachesGate ==
  \A w \in Workers :
    (ew_pc[w] \in {"save", "release"} /\ ew_effect[w].classified = "true")
      => pending_requests[ew_thread[w]].status = "pending"

C13_FailuresAbsorbed ==
  \A w \in Workers : ew_ack[w] # "exception"

\* C14: an invocation whose thread id equals the watermark when it reaches the
\* body of the try makes no classifier and no approval call, leaves the
\* watermark and the approval records as they are, and answers 204.
C14_ReplayGuard ==
  [][\A w \in Workers :
       (ew_pc[w] = "check" /\ ew_thread[w] = last_thread_id /\ ew_pc'[w] # "check")
         => /\ ew_pc'[w] = "release"
            /\ ew_ack'[w] = "204"
            /\ ew_effect'[w] = NoEffect
            /\ last_thread_id' = last_thread_id
            /\ pending_requests' = pending_requests]_vars

\* C15: a thread whose latest classifier call failed is not skipped by the
\* replay guard when its notification is delivered again.
C15_RetryByRedelivery ==
  [][\A w \in Workers :
       (ew_pc[w] = "check" /\ ew_thread[w] \in failed /\ ew_pc'[w] # "check")
         => ew_exit'[w] # "watermark_skip"]_vars

\* C16: a record stored with insured_inferred or holder_inferred false is
\* never moved to sent and never has a generate_coi request posted for it.
C16_DegradedNeverSent ==
  \A t \in Threads :
    (pending_requests[t].status # "absent"
       /\ ~(pending_requests[t].insured_inferred /\ pending_requests[t].holder_inferred))
      => (pending_requests[t].status # "sent" /\ triggers[t] = 0)

\* C17: every notification stores its record as pending, the degraded ones
\* included, and the message it sends carries the accept/reject buttons exactly
\* when both inferred flags are true.
C17_DegradedNotification ==
  [][\A t \in Threads :
       created'[t] # created[t]
         => /\ pending_requests'[t].status = "pending"
            /\ prompts'[t].text # "none"
            /\ prompts'[t].buttons =
                 (pending_requests'[t].insured_inferred
                    /\ pending_requests'[t].holder_inferred)]_vars

C17_Witness ==
  \E t \in Threads :
    /\ created[t] > 0
    /\ pending_requests[t].status = "pending"
    /\ ~pending_requests[t].holder_inferred
    /\ prompts[t].text = "check_holder"
    /\ ~prompts[t].buttons

\* C18: a callback for a thread id that has no approval record (a token
\* without ":" included) is answered "not found" and ends there: no record is
\* created, nothing in the store changes, no generate_coi request is posted,
\* and only a callback that found a record goes on to the write.
C18_UnknownThreadNoop ==
  [][\A c \in Callers :
       /\ (cb_pc[c] = "idle" /\ cb_outcome'[c] = "not_found")
            => /\ cb_pc'[c] = "done"
               /\ cb_effect'[c] = NoEffect
               /\ UNCHANGED <<pending_requests, triggers, created, prompts>>
       /\ cb_pc'[c] = "update"
            => /\ cb_thread'[c] \in Threads
               /\ pending_requests'[cb_thread'[c]].status # "absent"
       /\ \A t \in Threads :
            pending_requests'[t].status = "absent" => triggers'[t] = 0]_vars

C18_Witness ==
  \E c \in Callers, t \in Threads :
    /\ cb_pc[c] = "done"
    /\ cb_outcome[c] = "not_found"
    /\ pending_requests[t].status = "absent"
    /\ triggers[t] = 0

\* C19: a nosend callback writing to a pending record sets it to skipped and
\* does nothing else: no generate_coi request, no generator run, no draft,
\* every other record untouched.
C19_RejectSkips ==
  [][\A c \in Callers :
       (cb_pc[c] = "update" /\ cb_action[c] = "nosend" /\ cb_pc'[c] = "done"
          /\ pending_requests[cb_thread[c]].status = "pending")
         => /\ pending_requests' =
                 [pending_requests EXCEPT ![cb_thread[c]].status = "skipped"]
            /\ triggers' = triggers
            /\ cb_effect'[c] = NoEffect
            /\ cb_outcome'[c] = "skipped"]_vars

C19_Witness ==
  \E c \in Callers, t \in Threads :
    /\ cb_pc[c] = "done"
    /\ cb_outcome[c] = "skipped"
    /\ pending_requests[t].status = "skipped"
    /\ triggers[t] = 0

C21_NoThreadAck ==
  \A w \in Workers :
    ew_exit[w] = "no_thread"
      => /\ ew_ack[w] = "204"
         /\ ~ew_holds[w]
         /\ \A t \in Threads : locks[t] # w

\* C22: malformed input is answered with a client-error acknowledgment, which
\* differs from the acknowledgment of success.  For the ingest handler: an
\* envelope without a payload is not answered with the 204 a handled
\* notification gets.
C22_MalformedInputAck ==
  \A w \in Workers :
    (ew_pc[w] = "done" /\ ew_exit[w] = "no_data") => ew_ack[w] # "204"

\* C25: in generate_coi_files a failed fill of the main file does not keep
\* sign+flatten from being attempted on it, a failed sign+flatten of an
\* additional file does not keep the other additional files from being
\* processed, and no failure of a sub-step makes generate_coi_files raise.
C25_PartialFailureIsolation ==
  gf_pc = "done"
    => /\ ~gf_out.raised
       /\ gf_out.main_file # 0
            => /\ \E k \in 1..Len(gf_out.signs) : gf_out.signs[k] = gf_out.main_file
               /\ \A i \in 1..Len(gf_out.located) :
                    HasMarker(gf_out.located[i])
                      => \E k \in 1..Len(gf_out.signs) : gf_out.signs[k] = i

\* C26: when generate_coi_files returns, every located file whose name carries
\* the "additional" marker has gone through sign+flatten exactly once and
\* through no field fill.
C26_AdditionalSignedOnce ==
  (gf_pc = "done" /\ ~gf_out.raised)
    => \A i \in 1..Len(gf_out.located) :
         HasMarker(gf_out.located[i])
           => /\ Cardinality({k \in 1..Len(gf_out.signs) : gf_out.signs[k] = i}) = 1
              /\ \A k \in 1..Len(gf_out.fills) : gf_out.fills[k] # i

\* C27: when the fill of the main file fails (the file is missing from
\* storage, or the PDF cannot be read or written) the run logs coi_fill_failed
\* with status error and no coi_fill_finished, and goes on to sign+flatten.
C27_FillFailureLogged ==
  (gf_pc = "done" /\ gf_out.main_file # 0 /\ gf_in.fill_mode # "ok")
    => /\ \E k \in 1..Len(gf_out.log) : gf_out.log[k] = Event("coi_fill_failed", "error")
       /\ \A k \in 1..Len(gf_out.log) : gf_out.log[k].step # "coi_fill_finished"
       /\ \E k \in 1..Len(gf_out.signs) : gf_out.signs[k] = gf_out.main_file

\* C29: generate_coi_files works on at most 2 located files; the main file
\* carries no marker, every other processed file carries it, and each located
\* file is taken as exactly one of main and additional.
C29_LocateClassifies ==
  (gf_pc = "done" /\ ~gf_out.raised)
    => /\ Len(gf_out.located) <= 2
       /\ gf_out.main_file # 0 => ~HasMarker(gf_out.located[gf_out.main_file])
       /\ \A k \in 1..Len(gf_out.signs) :
            gf_out.signs[k] # gf_out.main_file => HasMarker(gf_out.located[gf_out.signs[k]])
       /\ \A i \in 1..Len(gf_out.located) :
            (i = gf_out.main_file)
              # (\E k \in 1..Len(gf_out.additional_files) : gf_out.additional_files[k] = i)

\* C30: when the extraction response does not parse or lacks one of the
\* required keys, nothing is generated, no draft is created, the raw response
\* is recorded in the error collection, and the caller sees no value for a key
\* the response did not give.
C30_ExtractionFailure ==
  (/\ an_pc = "done"
   /\ an_out.effect.classified = "true"
   /\ \/ ~an_in.response.parses
      \/ \E k \in RequiredKeys : an_in.response.keys[k] = "absent")
    => /\ an_out.effect.gen_runs = 0
       /\ an_out.effect.drafts = 0
       /\ \E i \in 1..Len(an_out.errors) : an_out.errors[i] = an_in.response
       /\ \A k \in RequiredKeys :
            an_in.response.keys[k] = "absent" => an_out.inferred_data[k] = "absent"

\* The mailboxes a list names, in order.
MailboxesOf(list) == [i \in 1..Len(list) |-> list[i].addr]

\* The mailboxes of the original To and Cc in first-seen order, without
\* mailbox r, without the empty string and without repetitions.
RECURSIVE OthersInOrder(_, _, _)
OthersInOrder(boxes, r, seen) ==
  IF boxes = <<>> THEN <<>>
  ELSE IF Head(boxes) = r \/ Head(boxes) = BlankString.addr \/ Head(boxes) \in seen
       THEN OthersInOrder(Tail(boxes), r, seen)
       ELSE <<Head(boxes)>> \o OthersInOrder(Tail(boxes), r, seen \cup {Head(boxes)})

\* C23: when the extraction inferred one recipient R and R is among the
\* original To and Cc addresses, the composed message has To = [R] and Cc = the
\* original To and Cc addresses without R, without duplicates, in first-seen
\* order.  Addresses are compared by the mailbox they name.
C23_RecipientResolution ==
  (/\ dr_pc = "done"
   /\ Len(dr_in.to_emails_inferred) = 1
   /\ \E i \in 1..Len(dr_in.to_emails \o dr_in.cc_emails) :
        (dr_in.to_emails \o dr_in.cc_emails)[i].addr = dr_in.to_emails_inferred[1].addr)
    => /\ dr_out.to = dr_in.to_emails_inferred
       /\ MailboxesOf(dr_out.cc)
            = OthersInOrder(MailboxesOf(dr_in.to_emails \o dr_in.cc_emails),
                            dr_in.to_emails_inferred[1].addr, {})

\* A list with no surrounding whitespace, no display-name wrapping and no two
\* entries naming the same mailbox.
IsNormalized(list) ==
  /\ \A i \in 1..Len(list) : list[i].form \notin {"padded", "display"}
  /\ \A i, j \in 1..Len(list) : i # j => list[i].addr # list[j].addr

\* C24: the recipient lists on the outgoing message are normalized: no entry
\* keeps whitespace or a display name, and no mailbox appears twice, whatever
\* the casing.
C24_RecipientsNormalized ==
  dr_pc = "done" => (IsNormalized(dr_out.to) /\ IsNormalized(dr_out.cc))

\* C28: the flow event log of a thread is append-only: whichever service calls
\* log_step, every event document under the thread is still there, unchanged,
\* after the call.
C28_FlowLogAppendOnly ==
  [][\A t \in Threads : flow_log[t] \subseteq flow_log'[t]]_vars

\* The names of a list that are in storage, in the order of the list.
InStorage(file_names, in_storage) ==
  LET Held(f) == f \in in_storage IN SelectSeq(file_names, Held)

\* C31: create_draft_coi_reply never raises and leaves every approval record
\* as it was.  When nothing raises, the message is submitted with exactly the
\* files that are in storage attached, in order, the absent ones skipped.
\* When something raises during composition or submission, nothing is
\* submitted, a draft_create_failed error event is logged and the function
\* returns False.
C31_DeliveryTolerant ==
  [][(dr_pc = "idle" /\ dr_pc' = "done")
      => /\ ~dr_out'.raised
         /\ pending_requests' = pending_requests
         /\ dr_in'.fault.kind = "none" => dr_out'.submitted
         /\ dr_out'.submitted
              => /\ dr_out'.returned
                 /\ dr_out'.attached = InStorage(dr_in'.file_names, dr_in'.in_storage)
         /\ ~dr_out'.submitted
              => /\ ~dr_out'.returned
                 /\ dr_out'.log = <<Event("draft_create_failed", "error")>>]_vars

\* A draft submitted with one file attached and an absent one skipped, while
\* an approval record is pending.
C31_Witness ==
  /\ dr_pc = "done"
  /\ dr_out.submitted
  /\ Len(dr_in.file_names) = 2
  /\ Len(dr_out.attached) = 1
  /\ dr_in.file_names[1] \notin dr_in.in_storage
  /\ \E t \in Threads : pending_requests[t].status = "pending"

\* C32: the watermark, once set, is never cleared, and it changes only in
\* save_last_processed_id, to the id of the thread of an invocation that has
\* returned from handle_email and holds that thread's lock.
C32_WatermarkOnlyAdvances ==
  [][last_thread_id' # last_thread_id
      => /\ last_thread_id' # None
         /\ \E w \in Workers :
              /\ ew_pc[w] = "save" /\ ew_pc'[w] = "release"
              /\ ew_thread[w] \in handled
              /\ ew_holds[w] /\ locks[ew_thread[w]] = w
              /\ last_thread_id' = ew_thread[w]]_vars

\* The watermark was set for one thread and an invocation for another thread
\* has just replaced it.
C32_Witness ==
  \E w \in Workers :
    /\ ew_pc[w] = "release" /\ ew_exit[w] = "handled"
    /\ last_thread_id = ew_thread[w]
    /\ \E t \in handled : t # ew_thread[w]

\* The greatest internalDate over all messages of a listing, an unparsable
\* one counting as 0; -1 when there is no message.
GreatestDate(threads) ==
  LET dates == {ParseInternalDate(threads[i][j]) :
                  <<i, j>> \in {p \in (1..MaxListed) \X (1..MaxMessages) :
                                  p[1] <= Len(threads) /\ p[2] <= Len(threads[p[1]])}}
  IN  IF dates = {} THEN -1 ELSE CHOOSE d \in dates : \A e \in dates : e <= d

\* Thread i of the listing has a message of the given date.
HasDate(threads, i, d) ==
  \E j \in 1..Len(threads[i]) : ParseInternalDate(threads[i][j]) = d

\* C33: get_latest_thread returns None only when no thread is listed;
\* otherwise it returns the earliest-listed thread that has a message of the
\* greatest internalDate over all messages of the listed threads.
C33_LatestThread ==
  latest_call.pc = "done"
    => LET threads == latest_call.threads
           r == latest_call.returned
       IN  /\ (r = None) <=> (threads = <<>>)
           /\ r # None
                => /\ r \in 1..Len(threads)
                   /\ HasDate(threads, r, GreatestDate(threads))
                   /\ \A i \in 1..(r - 1) : ~HasDate(threads, i, GreatestDate(threads))

\* C34: for an approval record stored once and offered with buttons, when no
\* handle_callback is between its read and its write, a generate_coi request
\* has been posted only if the record's status is sent, and a skipped record
\* had none posted.
C34_StatusMatchesTrigger ==
  \A t \in Threads :
    (created[t] = 1 /\ prompts[t].buttons /\ \A c \in Callers : cb_pc[c] # "update")
      => /\ triggers[t] > 0 => pending_requests[t].status = "sent"
         /\ pending_requests[t].status = "skipped" => triggers[t] = 0

\* C35: every file name generate_coi_files returns had
\* add_signature_and_flatten called on it in that run.
C35_ReturnedFilesSigned ==
  gf_pc = "done"
    => \A i \in 1..Len(gf_out.returned) :
         \E k \in 1..Len(gf_out.signs) : gf_out.signs[k] = i

\* C36: whenever a message with the accept and reject buttons has been
\* delivered for a thread, its approval record is already stored, so a
\* callback for that thread finds a record.
C36_RecordBeforeButtons ==
  \A t \in Threads :
    prompts[t].buttons
      => /\ pending_requests[t].status # "absent"
         /\ callback_check(PendingDoc(pending_requests, t)) # "not_found"

\* The buttons were delivered for a thread and a callback for it has read the
\* record and is about to write it.
C36_Witness ==
  \E t \in Threads, c \in Callers :
    /\ prompts[t].buttons
    /\ cb_pc[c] = "update" /\ cb_thread[c] = t
    /\ pending_requests[t].status = "pending"

\* The request's classification is positive and its extraction response
\* parses and gives a non-empty value for each of the four fields.
PositiveAndComplete ==
  /\ an_in.llm = "true"
  /\ an_in.response.parses
  /\ \A k \in RequiredKeys : an_in.response.keys[k] = "value"

\* The events of the given step in the log of the analyze request.
Logged(step) == {i \in 1..Len(an_out.log) : an_out.log[i].step = step}

\* C37 as stated: generation runs only when the classification is positive
\* and the four fields are non-empty; in every other case generate_coi_files
\* is not called, no draft is created and generate_coi_files_skipped is logged.
C37_GenerationGuard ==
  an_pc = "done"
    => /\ an_out.effect.gen_runs = 1 => PositiveAndComplete
       /\ ~PositiveAndComplete
            => /\ an_out.effect.gen_runs = 0
               /\ an_out.effect.drafts = 0
               /\ Logged("generate_coi_files_skipped") # {}

\* C37 amended: generation runs only when the classification is positive and
\* the four fields are non-empty; in every other case generate_coi_files is
\* not called and no draft is created, and generate_coi_files_skipped is
\* logged exactly when the classification is positive and a field is missing.
C37_GenerationGuardAmended ==
  an_pc = "done"
    => /\ an_out.effect.gen_runs = 1 => PositiveAndComplete
       /\ ~PositiveAndComplete
            => /\ an_out.effect.gen_runs = 0
               /\ an_out.effect.drafts = 0
               /\ an_out.generation = NoRun
       /\ Logged("generate_coi_files_skipped") # {}
            <=> (an_in.llm = "true" /\ ~PositiveAndComplete)

\* A positive classification with an empty holder address: skipped is logged.
C37_Witness ==
  /\ an_pc = "done"
  /\ an_in.llm = "true"
  /\ an_in.response.parses
  /\ an_in.response.keys["holder_addr_2"] = "empty"
  /\ an_in.response.keys["insured_name"] = "value"
  /\ an_out.effect.gen_runs = 0
  /\ Logged("generate_coi_files_skipped") # {}

\* C38: when generate_coi_files locates no file it returns the empty list
\* with no fill and no sign+flatten call, and analyze_for_coi_request then
\* creates no draft, writes no coi_generations record and logs
\* generate_coi_files_failed with status error.
C38_NoFilesLocated ==
  (/\ an_pc = "done"
   /\ an_out.effect.gen_runs = 1
   /\ an_out.generation.located = <<>>)
    => /\ an_out.generation.returned = <<>>
       /\ an_out.generation.fills = <<>>
       /\ an_out.generation.signs = <<>>
       /\ ~an_out.raised
       /\ an_out.effect.drafts = 0
       /\ an_out.coi_generations = 0
       /\ \E i \in Logged("generate_coi_files_failed") : an_out.log[i].status = "error"
       /\ Logged("generate_coi_files_completed") = {}

\* Drive listed a file that is not a .pdf, so nothing was located.
C38_Witness ==
  /\ an_pc = "done"
  /\ an_out.effect.gen_runs = 1
  /\ an_in.items # <<>>
  /\ an_out.generation.located = <<>>
  /\ an_in.store_ok

\* C39: a log_step call never raises to its caller, whether or not its write
\* succeeded, and leaves the locks, the watermark and the approval records as
\* they were.
C39_LogStepNeverRaises ==
  [][log_clock' # log_clock
      => /\ ~log_raised'
         /\ UNCHANGED <<locks, last_thread_id, pending_requests>>]_vars

\* A log_step call whose write failed (nothing is in the flow logs), made
\* while an approval record is pending.
C39_Witness ==
  /\ log_clock = 1
  /\ ~log_raised
  /\ flow_top = {}
  /\ \A t \in Threads : flow_log[t] = {}
  /\ \E t \in Threads : pending_requests[t].status = "pending"

====
